---- MODULE Spec2Model ----
(***************************************************************************)
(* SMS spam detection: the Streamlit serving app (app/streamlit_app.py)    *)
(* and the standalone training script (scripts/train_model.py).            *)
(*                                                                         *)
(* A text is a sequence of one-character strings, so that str.strip() is   *)
(* computed character by character.  Probabilities are integers in units   *)
(* of 1/Unit (1e-4).  A dataset file is a sequence of rows <<c1, c2>>.     *)
(***************************************************************************)
EXTENDS Integers, Sequences, FiniteSets, TLC

VARIABLES
    dataFile,    \* data/sms_spam_no_header.csv: [exists, rows]
    artifact,    \* models/spam_classifier.pkl: [kind, classes, n]
    cache,       \* the st.cache_resource entry of load_model: [set, model, oid]
    loads,       \* how many times the body of load_model has returned
    text,        \* st.session_state.sms_text_area
    widgets,     \* the last run of the page rendered its widgets
    out,         \* what the last run of the page displayed
    scriptOut    \* how the last run of scripts/train_model.py ended

vars == <<dataFile, artifact, cache, loads, text, widgets, out, scriptOut>>

---------------------------------------------------------------------------
(* Bounds of the model *)

MaxHam == 5
MaxSpam == 4
MaxOther == 2
MaxTextLen == 1

---------------------------------------------------------------------------
(* Dataset files *)

HeaderRow == <<"label", "text">>
HamRow == <<"ham", "hi">>
SpamRow == <<"spam", "win">>
OtherRow == <<"unknown", "eh">>

\* The labels in the order np.unique sorts them (lexicographic).
LabelOrder == <<"ham", "label", "spam", "unknown">>

RECURSIVE Rep(_, _)
Rep(row, k) == IF k = 0 THEN <<>> ELSE <<row>> \o Rep(row, k - 1)

NoFile == [exists |-> FALSE, rows |-> <<>>]

Files ==
    {NoFile} \cup
    { [exists |-> TRUE,
       rows |-> (IF hdr THEN <<HeaderRow>> ELSE <<>>)
                \o Rep(HamRow, h) \o Rep(SpamRow, s) \o Rep(OtherRow, o)] :
        hdr \in BOOLEAN, h \in 0..MaxHam, s \in 0..MaxSpam, o \in 0..MaxOther }

---------------------------------------------------------------------------
(* pandas / scikit-learn calls made by both programs *)

NoFrame == [ok |-> FALSE, exc |-> "", columns |-> <<>>, data |-> <<>>]

\* pd.read_csv(path, header=None, names=['label', 'text']): every row is data.
read_csv_names(file) ==
    IF ~file.exists THEN [NoFrame EXCEPT !.exc = "FileNotFoundError"]
    ELSE IF file.rows = <<>> THEN [NoFrame EXCEPT !.exc = "EmptyDataError"]
    ELSE [ok |-> TRUE, exc |-> "", columns |-> <<"label", "text">>, data |-> file.rows]

\* pd.read_csv(path): the first row names the columns, the rest is data.
read_csv_default(file) ==
    IF ~file.exists THEN [NoFrame EXCEPT !.exc = "FileNotFoundError"]
    ELSE IF file.rows = <<>> THEN [NoFrame EXCEPT !.exc = "EmptyDataError"]
    ELSE [ok |-> TRUE, exc |-> "", columns |-> Head(file.rows), data |-> Tail(file.rows)]

HasColumn(df, name) == \E i \in DOMAIN df.columns : df.columns[i] = name

\* df[name]: the values of the column called name.
Column(df, name) ==
    LET i == CHOOSE j \in DOMAIN df.columns : df.columns[j] = name
    IN  [k \in DOMAIN df.data |-> df.data[k][i]]

Count(labels, c) == Cardinality({i \in DOMAIN labels : labels[i] = c})

\* np.unique(y): the distinct labels, sorted.
Classes(labels) ==
    SelectSeq(LabelOrder, LAMBDA c : \E i \in DOMAIN labels : labels[i] = c)

\* Mutant: a split that does not check the size of the smallest class.
train_test_split_no_class_check(labels) ==
    LET n == Len(labels)
        n_test == (n + 4) \div 5
        n_train == n - n_test
        classes == Classes(labels)
        ok == /\ n_train > 0
              /\ n_train >= Len(classes)
              /\ n_test >= Len(classes)
    IN  [ok |-> ok, n_train |-> n_train, n_test |-> n_test, classes |-> classes]

\* train_test_split(X, y, test_size=0.2, random_state=42, stratify=y):
\* n_test = ceil(0.2 * n), n_train = n - n_test; ValueError when the train set
\* is empty, when a class has fewer than 2 members, or when either part is
\* smaller than the number of classes.
train_test_split(labels) ==
    LET n == Len(labels)
        n_test == (n + 4) \div 5
        n_train == n - n_test
        classes == Classes(labels)
        ok == /\ n_train > 0
              /\ \A i \in DOMAIN classes : Count(labels, classes[i]) >= 2
              /\ n_train >= Len(classes)
              /\ n_test >= Len(classes)
    IN  [ok |-> ok, n_train |-> n_train, n_test |-> n_test, classes |-> classes]

\* Pipeline.fit(X_train, y_train): LogisticRegression raises ValueError when
\* y_train holds a single class (a stratified train part holds every class).
\* The rows of a class share their text, so that min_df=2 leaves the
\* vectorizer a vocabulary whenever the train part holds two rows of a class;
\* it does whenever the split of two or more classes succeeds.
fit_ok(split) == Len(split.classes) >= 2

NoModel == [kind |-> "none", classes |-> <<>>, n |-> 0]

\* The fitted pipeline: its classes_ and the size of the part it was fitted on.
Pipeline(split) == [kind |-> "pipeline", classes |-> split.classes, n |-> split.n_train]

\* The outcome of a training run: how it ended, where, and the pipeline dumped.
Failed(how, stage) == [status |-> how, stage |-> stage, model |-> NoModel, wrote |-> FALSE]

\* Split, fit, score and dump, common to the app and the script.
split_fit_dump(labels) ==
    LET split == train_test_split(labels)
    IN  IF ~split.ok THEN Failed("exception", "train_test_split")
        ELSE IF ~fit_ok(split) THEN Failed("exception", "fit")
        ELSE [status |-> "ok", stage |-> "dump", model |-> Pipeline(split), wrote |-> TRUE]

---------------------------------------------------------------------------
(* scripts/train_model.py *)

\* The whole script: an exception anywhere is uncaught and ends the process
\* with a traceback.
training_script(file) ==
    LET df == read_csv_default(file)
    IN  IF ~df.ok THEN Failed("exception", "read_csv")
        ELSE IF ~HasColumn(df, "text") \/ ~HasColumn(df, "label")
             THEN Failed("exception", "columns")
        ELSE split_fit_dump(Column(df, "label"))

---------------------------------------------------------------------------
(* app/streamlit_app.py: the model *)

\* Mutant: a train_model that returns the pipeline without dumping it.
train_model_no_dump(file) ==
    IF ~file.exists THEN Failed("stopped", "data_path")
    ELSE LET df == read_csv_names(file)
         IN  IF ~df.ok THEN Failed("exception", "read_csv")
             ELSE [split_fit_dump(Column(df, "label")) EXCEPT !.wrote = FALSE]

\* train_model(): st.error and st.stop when the data file is missing, else
\* read, split, fit, dump.
train_model(file) ==
    IF ~file.exists THEN Failed("stopped", "data_path")
    ELSE LET df == read_csv_names(file)
         IN  IF ~df.ok THEN Failed("exception", "read_csv")
             ELSE split_fit_dump(Column(df, "label"))

\* joblib.load(model_path): the pipeline in the file, or an exception when the
\* file cannot be unpickled.
joblib_load(art) ==
    IF art.kind = "pipeline"
    THEN [status |-> "ok", stage |-> "load", model |-> art, wrote |-> FALSE]
    ELSE Failed("exception", "joblib.load")

\* Mutant: a body that trains again when the file cannot be read.
load_model_body_retrain(art, file) ==
    IF art.kind \in {"absent", "corrupt"} THEN train_model(file) ELSE joblib_load(art)

\* Mutant: a body that trains whether or not the file exists.
load_model_body_always_train(art, file) == train_model(file)

\* The body of load_model().
load_model_body(art, file) ==
    IF art.kind = "absent" THEN train_model(file) ELSE joblib_load(art)

NoCache == [set |-> FALSE, model |-> NoModel, oid |-> 0]

\* Mutant: load_model without its cache decorator.
load_model_uncached(c, art, file, nloads) ==
    LET r == load_model_body(art, file)
    IN  [status |-> r.status, stage |-> r.stage, model |-> r.model,
         wrote |-> r.wrote, computed |-> (r.status = "ok"),
         cache |-> IF r.status = "ok"
                   THEN [set |-> TRUE, model |-> r.model, oid |-> nloads + 1]
                   ELSE c]

\* @st.cache_resource load_model(): the cached object when there is one, else
\* the body; a body that raises or stops caches nothing.
load_model(c, art, file, nloads) ==
    IF c.set
    THEN [status |-> "ok", stage |-> "cache", model |-> c.model, wrote |-> FALSE,
          computed |-> FALSE, cache |-> c]
    ELSE LET r == load_model_body(art, file)
         IN  [status |-> r.status, stage |-> r.stage, model |-> r.model,
              wrote |-> r.wrote, computed |-> (r.status = "ok"),
              cache |-> IF r.status = "ok"
                        THEN [set |-> TRUE, model |-> r.model, oid |-> nloads + 1]
                        ELSE c]

---------------------------------------------------------------------------
(* app/streamlit_app.py: the text and the prediction *)

Whitespace == {" ", "\t", "\n", "\r"}

RECURSIVE lstrip(_)
lstrip(s) == IF s # <<>> /\ Head(s) \in Whitespace THEN lstrip(Tail(s)) ELSE s

RECURSIVE rstrip(_)
rstrip(s) ==
    IF s # <<>> /\ s[Len(s)] \in Whitespace THEN rstrip(SubSeq(s, 1, Len(s) - 1)) ELSE s

\* str.strip()
strip(s) == rstrip(lstrip(s))

\* Mutant: `if text`
HasInput_truthy_only(t) == t # <<>>

\* `if text and text.strip()`
HasInput(t) == t # <<>> /\ strip(t) # <<>>

HamExample ==
    << "H", "e", "y", ",", " ", "a", "r", "e", " ", "w", "e", " ", "s", "t",
       "i", "l", "l", " ", "m", "e", "e", "t", "i", "n", "g", " ", "f", "o",
       "r", " ", "l", "u", "n", "c", "h", " ", "t", "o", "d", "a", "y", "?" >>

SpamExample ==
    << "U", "R", "G", "E", "N", "T", "!", " ", "Y", "o", "u", "'", "v", "e",
       " ", "w", "o", "n", " ", "$", "1", "0", "0", "0", "!", " ", "C", "l",
       "i", "c", "k", " ", "h", "e", "r", "e", " ", "N", "O", "W", " ", "t",
       "o", " ", "c", "l", "a", "i", "m", "!" >>

\* What the user can type: texts of at most MaxTextLen characters.
TypedChars == {" ", "\n", "a"}

RECURSIVE TextsOfLen(_)
TextsOfLen(k) ==
    IF k = 0 THEN {<<>>}
    ELSE {Append(t, c) : t \in TextsOfLen(k - 1), c \in TypedChars}

Texts == UNION {TextsOfLen(k) : k \in 0..MaxTextLen}

\* Probabilities are counted in units of 1/Unit.
Unit == 10000

\* The decision values of a two-class pipeline on the texts, in units of
\* 1/Unit, and the logistic function of each as floating point rounds it: a
\* decision value too small to move the sum 1 + exp(-d) gives exactly one half.
Scores == {-10000, -16, -1, 0, 1, 16, 10000}

Expit(d) ==
    CASE d = -10000 -> 2689
      [] d = -16 -> 4996
      [] d = -1 -> 5000
      [] d = 0 -> 5000
      [] d = 1 -> 5000
      [] d = 16 -> 5004
      [] d = 10000 -> 7311

\* The probability rows of a three-class pipeline on the texts.
Proba3 ==
    { <<5000, 3000, 2000>>, <<2000, 5000, 3000>>, <<3000, 2000, 5000>>,
      <<4000, 4000, 2000>>, <<2000, 4000, 4000>>, <<4500, 1500, 4000>> }

\* The inputs a pipeline with these classes can be given: what the text
\* evaluates to under its fitted parameters.
Evaluations(classes) == IF Len(classes) = 2 THEN Scores ELSE Proba3

\* np.argmax: the first position of the greatest entry.
ArgMax(v) ==
    CHOOSE i \in DOMAIN v :
        /\ \A j \in DOMAIN v : v[j] <= v[i]
        /\ \A j \in 1..(i - 1) : v[j] < v[i]

\* model.predict_proba([text])[0]: [1 - p, p] with p the logistic function of
\* the decision value for two classes, the softmax row otherwise.
predict_proba(classes, x) ==
    IF Len(classes) = 2 THEN <<Unit - Expit(x), Expit(x)>> ELSE x

\* model.predict([text])[0]: classes_[1] when the decision value is positive,
\* else classes_[0], for two classes; the class of the greatest entry otherwise.
predict(classes, x) ==
    IF Len(classes) = 2 THEN classes[IF x > 0 THEN 2 ELSE 1] ELSE classes[ArgMax(x)]

\* classes.index('spam'), counted from 0
index(classes, c) == (CHOOSE i \in DOMAIN classes :
                          classes[i] = c /\ \A j \in 1..(i - 1) : classes[j] # c) - 1

\* Mutant: the spam slot taken to be index 1 whatever the classes.
spam_idx_fixed(classes) == 1

\* spam_idx = classes.index('spam') if 'spam' in classes else 1
spam_idx(classes) ==
    IF \E i \in DOMAIN classes : classes[i] = "spam" THEN index(classes, "spam") ELSE 1

\* The label shown: SPAM when prediction == 'spam', HAM otherwise.
Label(prediction) == IF prediction = "spam" THEN "SPAM" ELSE "HAM"

\* Mutant: the spam probability shown as the confidence of either label.
Confidence_always_spam(prediction, spam_prob) == spam_prob

\* The confidence shown with the label, before formatting.
Confidence(prediction, spam_prob) ==
    IF prediction = "spam" THEN spam_prob ELSE Unit - spam_prob

\* f"{x*100:.1f}%": tenths of a percent, a half rounded to even.
Fmt(x) ==
    LET q == x \div 10
        r == x % 10
    IN  IF r > 5 \/ (r = 5 /\ q % 2 = 1) THEN q + 1 ELSE q

NoOut ==
    [kind |-> "none", stage |-> "", trained |-> FALSE, calls |-> 0, oid |-> 0,
     classes |-> <<>>, prediction |-> "", proba |-> <<>>, spam_idx |-> 0,
     spam_prob |-> 0, label |-> "", confidence |-> 0, shown |-> 0]

\* The body of `if st.button("Predict")`: the result, or the warning.
PredictHandler(c, t, x) ==
    IF HasInput(t)
    THEN LET classes == c.model.classes
             prediction == predict(classes, x)
             proba == predict_proba(classes, x)
             idx == spam_idx(classes)
             spam_prob == proba[idx + 1]
             conf == Confidence(prediction, spam_prob)
         IN  [NoOut EXCEPT !.kind = "result", !.calls = 2, !.oid = c.oid,
                           !.classes = classes, !.prediction = prediction,
                           !.proba = proba, !.spam_idx = idx,
                           !.spam_prob = spam_prob, !.label = Label(prediction),
                           !.confidence = conf, !.shown = Fmt(conf)]
    ELSE [NoOut EXCEPT !.kind = "warning"]

---------------------------------------------------------------------------
(* The state machine *)

NoArtifact == [kind |-> "absent", classes |-> <<>>, n |-> 0]
CorruptArtifact == [kind |-> "corrupt", classes |-> <<>>, n |-> 0]

\* The artifact file before the programs run: none, an unreadable one, or a
\* pipeline dumped by an earlier training.
InitArtifacts ==
    { NoArtifact, CorruptArtifact,
      [kind |-> "pipeline", classes |-> <<"ham", "spam">>, n |-> 4000],
      [kind |-> "pipeline", classes |-> <<"ham", "spam", "unknown">>, n |-> 4400] }

NoScriptOut == [status |-> "none", stage |-> "", exit |-> 0]

Init ==
    /\ dataFile \in Files
    /\ artifact \in InitArtifacts
    /\ cache = NoCache
    /\ loads = 0
    /\ text = <<>>
    /\ widgets = FALSE
    /\ out = NoOut
    /\ scriptOut = NoScriptOut

\* One run of app/streamlit_app.py from top to bottom, started by the event
\* ev: "open" (a page load), "ham" or "spam" (an example button), "edit" (the
\* text area changed to typed) or "predict" (the Predict button).  x is what
\* the text evaluates to under the pipeline.
Run(ev, typed, x) ==
    LET r == load_model(cache, artifact, dataFile, loads)
        session == IF ev = "edit" THEN typed ELSE text
        t == CASE ev = "ham" -> HamExample
               [] ev = "spam" -> SpamExample
               [] OTHER -> session
    IN  /\ cache' = r.cache
        /\ loads' = IF r.computed THEN loads + 1 ELSE loads
        /\ artifact' = IF r.wrote THEN r.model ELSE artifact
        /\ IF r.status # "ok"
           THEN /\ text' = session
                /\ widgets' = FALSE
                /\ out' = [NoOut EXCEPT !.kind = r.status, !.stage = r.stage]
           ELSE /\ text' = t
                /\ widgets' = TRUE
                /\ out' = [(IF ev = "predict"
                            THEN PredictHandler(r.cache, t, x)
                            ELSE [NoOut EXCEPT !.kind = "page"])
                           EXCEPT !.trained = r.wrote]
        /\ UNCHANGED <<dataFile, scriptOut>>

OpenPage == Run("open", <<>>, 0)

UseHamExample == widgets /\ Run("ham", <<>>, 0)

UseSpamExample == widgets /\ Run("spam", <<>>, 0)

EditText == widgets /\ \E typed \in Texts : Run("edit", typed, 0)

Predict == widgets /\ \E x \in Evaluations(cache.model.classes) : Run("predict", <<>>, x)

\* One run of scripts/train_model.py, a process of its own.
RunTrainScript ==
    /\ LET r == training_script(dataFile)
       IN  /\ scriptOut' = [status |-> r.status, stage |-> r.stage,
                            exit |-> IF r.status = "ok" THEN 0 ELSE 1]
           /\ artifact' = IF r.wrote THEN r.model ELSE artifact
    /\ UNCHANGED <<dataFile, cache, loads, text, widgets, out>>

Serving == OpenPage \/ UseHamExample \/ UseSpamExample \/ EditText \/ Predict

Next ==
    \/ OpenPage
    \/ UseHamExample
    \/ UseSpamExample
    \/ EditText
    \/ Predict
    \/ RunTrainScript

Spec == Init /\ [][Next]_vars

---------------------------------------------------------------------------
(* Properties *)

IsBlank(t) == \A i \in DOMAIN t : t[i] \in Whitespace

\* The page got past load_model() in its last run.
Served == out.kind \in {"page", "warning", "result"}

\* C1: after a press of Predict, a text that is empty or all whitespace gives
\* the warning and no call of the classifier; the classifier is called (predict
\* and predict_proba) only for a text that is not blank.
C1_BlankInputNeverReachesClassifier ==
    out.kind \in {"warning", "result"} =>
        /\ (IsBlank(text) => out.kind = "warning" /\ out.calls = 0)
        /\ (out.calls > 0 => ~IsBlank(text))
        /\ (out.kind = "result" <=> out.calls > 0)

\* C1 witness: Predict was pressed on a text of whitespace only.
C1_Witness == out.kind = "warning" /\ text # <<>> /\ IsBlank(text)

\* C2: the body of load_model returns at most once in the process, and every
\* prediction is computed by the one cached object.
C2_LoadedAtMostOnce ==
    /\ loads <= 1
    /\ cache.set => loads = 1 /\ cache.oid = 1
    /\ out.kind = "result" => cache.set /\ out.oid = cache.oid

\* C2 witness: a prediction made in the third run of the page or later (an
\* example button, then Predict), with one load behind it.
C2_Witness == out.kind = "result" /\ text = HamExample /\ loads = 1

\* C3: a served page without an artifact file before it means the run trained
\* and wrote the artifact it then serves with; wherever a prediction has been
\* computed, a pipeline is cached and the artifact file holds a pipeline.
C3_Served ==
    /\ out.calls > 0 => cache.set /\ cache.model.kind = "pipeline"
    /\ Served => cache.set /\ artifact.kind = "pipeline"

C3_TrainedBeforeFirstRequest ==
    /\ []C3_Served
    /\ [][artifact.kind = "absent" /\ Served' /\ Serving
            => out'.trained /\ artifact'.kind = "pipeline" /\ artifact' = cache'.model]_vars

\* C3 witness: a prediction from a pipeline the app trained itself.
C3_Witness ==
    /\ out.kind = "result"
    /\ scriptOut.status = "none"
    /\ artifact \notin InitArtifacts
    /\ cache.model = artifact

Half == Unit \div 2

\* The position of the class the page shows in a [ham, spam] class list.
ShownSlot == IF out.label = "SPAM" THEN 2 ELSE 1

\* C4 (as amended): for a pipeline whose classes are ham and spam, the label
\* shown has a probability no smaller than the other's, the confidence is the
\* probability of the label shown, and it is at least one half; the two are
\* equal, and the confidence one half, when the text scores exactly one half.
C4_LabelIsTheMoreProbableOrTied ==
    (out.kind = "result" /\ out.classes = <<"ham", "spam">>) =>
        /\ out.spam_prob = out.proba[2]
        /\ out.confidence = out.proba[ShownSlot]
        /\ out.confidence >= Unit - out.confidence
        /\ out.confidence >= Half
        /\ out.shown = Fmt(out.confidence)
        /\ out.shown >= Fmt(Half)
        /\ (out.label = "SPAM" <=> out.prediction = "spam")

\* C4 as stated: the label shown has the strictly greater probability and the
\* confidence is greater than 0.5.
C4_Original_StrictlyGreater ==
    (out.kind = "result" /\ out.classes = <<"ham", "spam">>) =>
        /\ out.confidence = out.proba[ShownSlot]
        /\ out.confidence > Unit - out.confidence
        /\ out.confidence > Half

\* C4 witness: a SPAM label shown at a spam probability of exactly one half.
C4_Witness ==
    /\ out.kind = "result"
    /\ out.classes = <<"ham", "spam">>
    /\ out.label = "SPAM"
    /\ out.spam_prob = Half

\* C5: the spam probability is the entry of the probability row at the
\* position of "spam" in the class list, wherever that is; index 1 is used
\* when "spam" is not a class.
C5_SpamSlotByLookup ==
    out.kind = "result" =>
        LET cl == out.classes
        IN  /\ (\E i \in DOMAIN cl : cl[i] = "spam") =>
                   \E i \in DOMAIN cl : /\ cl[i] = "spam"
                                        /\ out.spam_idx = i - 1
                                        /\ out.spam_prob = out.proba[i]
            /\ (\A i \in DOMAIN cl : cl[i] # "spam") =>
                   out.spam_idx = 1 /\ out.spam_prob = out.proba[2]

\* C5 witness: "spam" is the first class and its slot differs from slot 1.
C5_Witness ==
    /\ out.kind = "result"
    /\ out.classes = <<"spam", "unknown">>
    /\ out.spam_prob = out.proba[1]
    /\ out.proba[1] # out.proba[2]

\* The app can train on the data file.
Trainable == train_model(dataFile).status = "ok"

\* C6 as stated: a run that finds an unreadable artifact retrains from the
\* dataset and replaces the artifact instead of failing.
C6_Original_RetrainsWhenUnreadable ==
    [][~cache.set /\ artifact.kind = "corrupt" /\ Trainable /\ Serving
         => artifact'.kind = "pipeline" /\ Served']_vars

\* C6 (as amended): a run that finds an unreadable artifact fails in
\* joblib.load: it shows the exception, caches nothing, renders no widget and
\* leaves the artifact file as it was; it does not train.
C6_UnreadableArtifactFailsTheRun ==
    [][~cache.set /\ artifact.kind = "corrupt" /\ Serving
         => /\ artifact' = artifact
            /\ ~cache'.set
            /\ loads' = loads
            /\ out'.kind = "exception" /\ out'.stage = "joblib.load"
            /\ ~out'.trained
            /\ ~widgets']_vars

\* C6 witness: the run failed on an unreadable artifact although the dataset
\* is one the app trains on.
C6_Witness ==
    /\ out.kind = "exception"
    /\ out.stage = "joblib.load"
    /\ artifact.kind = "corrupt"
    /\ Trainable

\* C7: with the dataset file absent, training writes no artifact, and the
\* failure is a message that halts the operation, never an uncaught exception
\* that ends the process; no prediction comes from an untrained model.
C7_MissingDatasetHaltsWithMessage ==
    ~dataFile.exists =>
        /\ artifact \in InitArtifacts
        /\ ~out.trained
        /\ out.stage \in {"data_path", "read_csv"} => out.kind = "stopped"
        /\ scriptOut.status # "exception"
        /\ out.calls > 0 => cache.set /\ cache.model \in InitArtifacts

\* C8: a press of Predict leaves the artifact file, the cached model and the
\* text field as they were; no run of the page writes an artifact file that
\* exists.
C8_ServingHasNoSideEffects ==
    [][/\ (artifact' = artifact /\ cache' = cache /\ text' = text) \/ ~Predict
       /\ (artifact.kind = "absent" \/ artifact' = artifact) \/ ~Serving]_vars

\* C8 witness: a prediction was served on a non-empty text while the artifact
\* file exists.
C8_Witness == out.kind = "result" /\ text = SpamExample /\ artifact.kind = "pipeline"

\* A dataset file of (label, text) rows labelled ham or spam, with no header.
Headerless(file) ==
    /\ file.exists
    /\ \A i \in DOMAIN file.rows : file.rows[i][1] \in {"ham", "spam"}

FileLabels(file) == [i \in DOMAIN file.rows |-> file.rows[i][1]]

\* C9: on a headerless dataset with at least 2 examples of each class, one
\* the app's auto-train fits a pipeline on, the script reads every row as an
\* example, as the app does, and ends by writing the artifact.
C9_ScriptTrainsOnHeaderlessDataset ==
    (/\ Headerless(dataFile)
     /\ Count(FileLabels(dataFile), "ham") >= 2
     /\ Count(FileLabels(dataFile), "spam") >= 2
     /\ Trainable
     /\ scriptOut.status # "none") =>
        /\ read_csv_default(dataFile).data = read_csv_names(dataFile).data
        /\ scriptOut.status = "ok"
        /\ artifact.kind = "pipeline"

\* A headerless dataset in which a class has fewer than 2 examples.
LowClass(file) ==
    /\ Headerless(file)
    /\ \/ Count(FileLabels(file), "ham") < 2
       \/ Count(FileLabels(file), "spam") < 2

\* The last run of the page failed inside train_model.
AppTrainFailed == out.kind = "exception" /\ out.stage # "joblib.load"

====
